---- MODULE Spec2Model ----
(***************************************************************************)
(* A model of the codelint rule engine (github.com/nirohfeld/code_linter): *)
(* the rules configuration (rules_config.go), the six rules and the rule   *)
(* registry (rules.go) and the engine Linter.New / Linter.Run (linter.go). *)
(* Go strings are TLA+ strings, handled with Len, SubSeq and \o only.      *)
(***************************************************************************)
EXTENDS Integers, Sequences, FiniteSets, TLC

VARIABLES
    pc,           \* "start", "ready" (the rule set is built), "returned" (a method of it
                  \* returned), "done" (Run returned); while the configuration is
                  \* loaded step by step, "load" (the package is being loaded) and
                  \* the step fetchAndExecuteRulesScript is about to take
    config,       \* Linter.config: [Checks, MaxErrors]
    fetched,      \* what fetchAndExecuteRulesScript returned to LoadRulesConfig
    rulesConfig,  \* Rules.rulesConfig, the resolved configuration
    enabled,      \* Rules.enabled, the set of keys mapped to true
    MaxLength,    \* LineLengthRule.MaxLength
    files,        \* what Walker.Walk returned to Run
    allResults,   \* what Run returned
    err,          \* the error Run returned: "nil" or "walk"
    scanned,      \* how many files Run handed to CheckFile
    call,         \* the last direct call of a method: [op, arg, ret, ...]
    effects       \* what loading has done outside the process: [requests, executed,
                  \* goroutines]

vars == <<pc, config, fetched, rulesConfig, enabled, MaxLength, files,
          allResults, err, scanned, call, effects>>

(***************************************************************************)
(* Strings                                                                 *)
(***************************************************************************)
\* The bytes that occur in the model, in increasing byte order.
Bytes == "\t\n\f\r #()-./;BCFLOPRXY_abcdefghijklmnopqrstuvwxyz{}"

CharAt(s, i) == SubSeq(s, i, i)

ByteOf(c) == CHOOSE i \in 1..Len(Bytes) : CharAt(Bytes, i) = c

\* Go's < on strings: byte-wise lexicographic.
RECURSIVE StrLessFrom(_, _, _)
StrLessFrom(a, b, i) ==
    IF i > Len(b) THEN FALSE
    ELSE IF i > Len(a) THEN TRUE
    ELSE IF CharAt(a, i) # CharAt(b, i) THEN ByteOf(CharAt(a, i)) < ByteOf(CharAt(b, i))
    ELSE StrLessFrom(a, b, i + 1)

StrLess(a, b) == StrLessFrom(a, b, 1)

HasPrefix(s, prefix) ==
    Len(prefix) <= Len(s) /\ SubSeq(s, 1, Len(prefix)) = prefix

HasSuffix(s, suffix) ==
    Len(suffix) <= Len(s) /\ SubSeq(s, Len(s) - Len(suffix) + 1, Len(s)) = suffix

\* strings.Index: the 0-based byte offset of the first occurrence, or -1.
Index(s, sub) ==
    LET hits == {i \in 1..(Len(s) - Len(sub) + 1) : SubSeq(s, i, i + Len(sub) - 1) = sub}
    IN  IF hits = {} THEN -1
        ELSE (CHOOSE i \in hits : \A j \in hits : i <= j) - 1

Contains(s, sub) == Index(s, sub) >= 0

\* The white space strings.TrimSpace removes (of the bytes in Bytes).
WhiteSpace == {" ", "\t", "\n", "\r", "\f"}

TrimSpace(s) ==
    LET keep == {i \in 1..Len(s) : CharAt(s, i) \notin WhiteSpace}
    IN  IF keep = {} THEN ""
        ELSE SubSeq(s, CHOOSE i \in keep : \A j \in keep : i <= j,
                       CHOOSE i \in keep : \A j \in keep : i >= j)

RECURSIVE Repeat(_, _)
Repeat(s, n) == IF n <= 0 THEN "" ELSE s \o Repeat(s, n - 1)

(***************************************************************************)
(* Result and severities (config.go)                                       *)
(***************************************************************************)
SeverityError == "error"
SeverityWarning == "warning"
SeverityInfo == "info"

Result(file, line, column, severity, rule, message) ==
    [File |-> file, Line |-> line, Column |-> column, Severity |-> severity,
     Rule |-> rule, Message |-> message]

(***************************************************************************)
(* RulesConfig (rules_config.go)                                           *)
(* A parameter value is [t |-> its Go dynamic type, v |-> the value]; JSON *)
(* numbers decode as float64, the literals of defaultRulesConfig are int.  *)
(***************************************************************************)
Bool(b) == [t |-> "bool", v |-> b]
Float64(n) == [t |-> "float64", v |-> n]
GoInt(n) == [t |-> "int", v |-> n]
GoString(s) == [t |-> "string", v |-> s]

NoParameters == <<>>

RuleConfig(isEnabled, severity, parameters) ==
    [Enabled |-> isEnabled, Severity |-> severity, Parameters |-> parameters]

\* v, ok := parameters[key].(float64)
IsFloat64(parameters, key) == key \in DOMAIN parameters /\ parameters[key].t = "float64"
\* v, ok := parameters[key].(bool)
IsBool(parameters, key) == key \in DOMAIN parameters /\ parameters[key].t = "bool"

defaultRulesConfig ==
    [Version |-> "1.0",
     Global |-> [Verbose |-> FALSE, MaxErrors |-> 0, DefaultSeverity |-> SeverityWarning],
     Rules |->
        [n \in {"license-headers", "header-guards", "naming-conventions",
                "formatting", "trailing-whitespace"} |->
            CASE n = "license-headers" ->
                    RuleConfig(TRUE, SeverityWarning, [check_lines |-> GoInt(10)])
              [] n = "header-guards" ->
                    RuleConfig(TRUE, SeverityError, [allow_pragma_once |-> Bool(TRUE)])
              [] n = "naming-conventions" ->
                    RuleConfig(TRUE, SeverityWarning,
                               [check_functions |-> Bool(TRUE), check_variables |-> Bool(FALSE)])
              [] n = "formatting" ->
                    RuleConfig(TRUE, SeverityInfo,
                               [max_line_length |-> GoInt(100), check_tabs |-> Bool(TRUE)])
              [] n = "trailing-whitespace" ->
                    RuleConfig(TRUE, SeverityWarning, NoParameters)]]

validSeverities == {SeverityError, SeverityWarning, SeverityInfo}

\* sanitizeRulesConfig without its loop over the rules.
sanitizeGlobalOnly(c) ==
    LET def == IF c.Global.DefaultSeverity \in validSeverities
               THEN c.Global.DefaultSeverity ELSE SeverityWarning
        max == IF c.Global.MaxErrors < 0 THEN 0
               ELSE IF c.Global.MaxErrors > 1000 THEN 1000
               ELSE c.Global.MaxErrors
    IN  [Version |-> c.Version,
         Global |-> [Verbose |-> c.Global.Verbose, MaxErrors |-> max, DefaultSeverity |-> def],
         Rules |-> c.Rules]

sanitizeRulesConfig(c) ==
    LET def == IF c.Global.DefaultSeverity \in validSeverities
               THEN c.Global.DefaultSeverity ELSE SeverityWarning
        max == IF c.Global.MaxErrors < 0 THEN 0
               ELSE IF c.Global.MaxErrors > 1000 THEN 1000
               ELSE c.Global.MaxErrors
    IN  [Version |-> c.Version,
         Global |-> [Verbose |-> c.Global.Verbose, MaxErrors |-> max, DefaultSeverity |-> def],
         Rules |-> [n \in DOMAIN c.Rules |->
                      IF c.Rules[n].Severity \in validSeverities THEN c.Rules[n]
                      ELSE [c.Rules[n] EXCEPT !.Severity = def]]]

\* What fetchAndExecuteRulesScript returns: an error (from any of its failing
\* steps) or the configuration decoded from the script's output.
FetchError == [failed |-> TRUE]
Fetched(c) == [failed |-> FALSE, config |-> c]

\* LoadRulesConfig, given what fetchAndExecuteRulesScript returned.
\* LoadRulesConfig handing back an empty configuration when the fetch failed.
LoadRulesConfigEmpty(got) ==
    IF got.failed
    THEN [Version |-> "",
          Global |-> [Verbose |-> FALSE, MaxErrors |-> 0, DefaultSeverity |-> SeverityWarning],
          Rules |-> <<>>]
    ELSE sanitizeRulesConfig(got.config)

LoadRulesConfig(got) ==
    IF got.failed THEN defaultRulesConfig ELSE sanitizeRulesConfig(got.config)

\* The functions that issued client.Get, whether /bin/bash ran what was fetched,
\* and the goroutines started and left to run on their own.
NoEffects == [requests |-> {}, executed |-> FALSE, goroutines |-> {}]

\* What fetchAndExecuteRulesScript has done when it returns got: it has sent its
\* request, and it has run the script unless it failed before running it.
LoadEffects(got) ==
    {[requests |-> {"fetchAndExecuteRulesScript"}, executed |-> ran, goroutines |-> {}] :
        ran \in IF got.failed THEN BOOLEAN ELSE {TRUE}}

\* GetRuleConfig returning the zero RuleConfig for a name it does not find.
GetRuleConfigZero(rc, ruleName) ==
    IF ruleName \in DOMAIN rc.Rules
    THEN [rule |-> rc.Rules[ruleName], exists |-> TRUE]
    ELSE [rule |-> RuleConfig(FALSE, "", NoParameters), exists |-> FALSE]

GetRuleConfig(rc, ruleName) ==
    IF ruleName \in DOMAIN rc.Rules
    THEN [rule |-> rc.Rules[ruleName], exists |-> TRUE]
    ELSE [rule |-> RuleConfig(TRUE, rc.Global.DefaultSeverity, NoParameters),
          exists |-> FALSE]

IsRuleEnabled(rc, ruleName) ==
    IF ruleName \in DOMAIN rc.Rules THEN rc.Rules[ruleName].Enabled ELSE TRUE

(***************************************************************************)
(* The rules (rules.go).  A file is [Path, Lines]; a rule is identified by *)
(* its position in Rules.rules.                                            *)
(***************************************************************************)
FileInfo(path, lines) == [Path |-> path, Lines |-> lines]

Indices(n) == [i \in 1..n |-> i]

licensePatterns ==
    <<"Copyright", "SPDX-License-Identifier", "Licensed under", "All Rights Reserved">>

defaultCheckLines == 10

\* A scan of every line of the file, whatever check_lines says.
checkLinesWholeFile(parameters, total) == total

\* checkLines when the loop starts: the check_lines parameter if it is a
\* float64, else 10, and at most the number of lines of the file.
checkLines(parameters, total) ==
    LET wanted == IF IsFloat64(parameters, "check_lines")
                  THEN parameters["check_lines"].v
                  ELSE defaultCheckLines
    IN  IF total < wanted THEN total ELSE wanted

LicenseHeaderRuleCheck(rc, file) ==
    LET ruleConfig == GetRuleConfig(rc, "license-headers").rule
        hasLicense == \E i \in 1..checkLines(ruleConfig.Parameters, Len(file.Lines)) :
                         \E p \in 1..Len(licensePatterns) :
                            Contains(file.Lines[i], licensePatterns[p])
    IN  IF ~ruleConfig.Enabled THEN <<>>
        ELSE IF ~hasLicense
        THEN <<Result(file.Path, 1, 1, ruleConfig.Severity, "license-headers",
                      "Missing license header")>>
        ELSE <<>>

\* The loop index beyond which a line of code ends the header guard scan.
guardScanIndex == 20

\* The break taken from loop index guardScanIndex on.
EndsGuardScanFromIndex(i, trimmed) ==
    /\ i >= guardScanIndex
    /\ trimmed # ""
    /\ ~HasPrefix(trimmed, "//")
    /\ ~HasPrefix(trimmed, "/*")
    /\ ~HasPrefix(trimmed, "#")

\* The break of the loop, at loop index i on a line that trims to trimmed.
EndsGuardScan(i, trimmed) ==
    /\ i > guardScanIndex
    /\ trimmed # ""
    /\ ~HasPrefix(trimmed, "//")
    /\ ~HasPrefix(trimmed, "/*")
    /\ ~HasPrefix(trimmed, "#")

\* allowPragmaOnce, which is true unless the parameter is a bool that says false.
AllowPragmaOnceDefaultFalse(parameters) ==
    IF IsBool(parameters, "allow_pragma_once")
    THEN parameters["allow_pragma_once"].v
    ELSE FALSE

AllowPragmaOnce(parameters) ==
    IF IsBool(parameters, "allow_pragma_once")
    THEN parameters["allow_pragma_once"].v
    ELSE TRUE

\* The test that follows the loop.
GuardIncompleteNoEndif(seen) == ~seen.hasIfndef \/ ~seen.hasDefine

GuardIncomplete(seen) == ~seen.hasIfndef \/ ~seen.hasDefine \/ ~seen.hasEndif

\* The loop of HeaderGuardRule.Check from line number n (1-based; Go's i is n - 1)
\* with the three flags seen so far; pragma is set by the return inside the loop.
RECURSIVE HeaderGuardScan(_, _, _, _)
HeaderGuardScan(lines, allowPragmaOnce, n, seen) ==
    IF n > Len(lines) THEN [seen EXCEPT !.pragma = FALSE]
    ELSE
        LET trimmed == TrimSpace(lines[n])
            now == IF HasPrefix(trimmed, "#ifndef") THEN [seen EXCEPT !.hasIfndef = TRUE]
                   ELSE IF HasPrefix(trimmed, "#define") /\ seen.hasIfndef
                        THEN [seen EXCEPT !.hasDefine = TRUE]
                   ELSE IF HasPrefix(trimmed, "#endif") THEN [seen EXCEPT !.hasEndif = TRUE]
                   ELSE seen
        IN  IF allowPragmaOnce /\ HasPrefix(trimmed, "#pragma once")
            THEN [now EXCEPT !.pragma = TRUE]
            ELSE IF EndsGuardScan(n - 1, trimmed)
            THEN [now EXCEPT !.pragma = FALSE]
            ELSE HeaderGuardScan(lines, allowPragmaOnce, n + 1, now)

HeaderGuardRuleCheck(rc, file) ==
    LET ruleConfig == GetRuleConfig(rc, "header-guards").rule
        end == HeaderGuardScan(file.Lines, AllowPragmaOnce(ruleConfig.Parameters), 1,
                   [hasIfndef |-> FALSE, hasDefine |-> FALSE, hasEndif |-> FALSE,
                    pragma |-> FALSE])
    IN  IF ~ruleConfig.Enabled THEN <<>>
        ELSE IF ~HasSuffix(file.Path, ".h") /\ ~HasSuffix(file.Path, ".hpp") THEN <<>>
        ELSE IF end.pragma THEN <<>>
        ELSE IF GuardIncomplete(end)
        THEN <<Result(file.Path, 1, 1, ruleConfig.Severity, "header-guards",
                      "Missing or incomplete header guard")>>
        ELSE <<>>

LowerCase == "abcdefghijklmnopqrstuvwxyz"
UpperCase == "ABCDEFGHIJKLMNOPQRSTUVWXYZ"
Digits == "0123456789"

Chars(s) == {CharAt(s, i) : i \in 1..Len(s)}
LowerCaseSet == Chars(LowerCase)
UpperCaseSet == Chars(UpperCase)
LetterSet == Chars(LowerCase) \cup Chars(UpperCase)
\* \s of the regular expression
RegexSpaceSet == {"\t", "\n", "\f", "\r", " "}
WordSet == Chars(LowerCase) \cup Chars(UpperCase) \cup Chars(Digits) \cup {"_"}

IsLower(c) == c \in LowerCaseSet
IsUpper(c) == c \in UpperCaseSet
IsWordChar(c) == c \in WordSet

\* The first position from i on whose byte is not in the class (Len(s) + 1 if none).
SpanEnd(s, i, class) ==
    LET stops == {j \in i..Len(s) : CharAt(s, j) \notin class}
    IN  IF i > Len(s) THEN i
        ELSE IF stops = {} THEN Len(s) + 1
        ELSE CHOOSE j \in stops : \A x \in stops : j <= x

\* The match of \b[a-z]+[A-Z][a-zA-Z]*\s*\( that starts at position i, or "".
\* Each greedy class is followed by a byte outside it, so the match is unique.
camelCaseAt(line, i) ==
    LET j == SpanEnd(line, i, LowerCaseSet)
        k == SpanEnd(line, j + 1, LetterSet)
        m == SpanEnd(line, k, RegexSpaceSet)
    IN  IF /\ IsLower(CharAt(line, i))
           /\ (i = 1 \/ ~IsWordChar(CharAt(line, i - 1)))
           /\ j > i
           /\ j <= Len(line) /\ IsUpper(CharAt(line, j))
           /\ m <= Len(line) /\ CharAt(line, m) = "("
        THEN SubSeq(line, i, m)
        ELSE ""

\* matches[0] of camelCaseFunc.FindAllString(line, -1), or "" when there is none.
camelCaseFunc(line) ==
    LET starts == {i \in 1..Len(line) : camelCaseAt(line, i) # ""}
    IN  IF starts = {} THEN ""
        ELSE camelCaseAt(line, CHOOSE i \in starts : \A j \in starts : i <= j)

NamingConventionRuleCheck(rc, file) ==
    LET ruleConfig == GetRuleConfig(rc, "naming-conventions").rule
        flagged(i) ==
            LET trimmed == TrimSpace(file.Lines[i])
            IN  /\ ~(HasPrefix(trimmed, "//") \/ HasPrefix(trimmed, "/*"))
                /\ HasSuffix(file.Path, ".c")
                /\ camelCaseFunc(file.Lines[i]) # ""
        hit == SelectSeq(Indices(Len(file.Lines)), flagged)
    IN  IF ~ruleConfig.Enabled THEN <<>>
        ELSE [x \in 1..Len(hit) |->
                Result(file.Path, hit[x], 1, ruleConfig.Severity, "naming-conventions",
                       "Function name should use snake_case: "
                           \o camelCaseFunc(file.Lines[hit[x]]))]

FormattingRuleCheck(rc, file) ==
    LET ruleConfig == GetRuleConfig(rc, "formatting").rule
        tabbed == {i \in 1..Len(file.Lines) : Contains(file.Lines[i], "\t")}
        first == CHOOSE i \in tabbed : \A j \in tabbed : i <= j
    IN  IF ~ruleConfig.Enabled THEN <<>>
        ELSE IF tabbed = {} THEN <<>>
        ELSE <<Result(file.Path, first, Index(file.Lines[first], "\t") + 1, SeverityInfo,
                      "formatting", "File contains tabs; consider using spaces")>>

\* The trailing whitespace rule gated by the entry of "formatting".
TrailingWhitespaceRuleCheckByFormatting(rc, file) ==
    LET ruleConfig == GetRuleConfig(rc, "formatting").rule
        flagged(i) ==
            /\ Len(file.Lines[i]) > 0
            /\ (HasSuffix(file.Lines[i], " ") \/ HasSuffix(file.Lines[i], "\t"))
        hit == SelectSeq(Indices(Len(file.Lines)), flagged)
    IN  IF ~ruleConfig.Enabled THEN <<>>
        ELSE [x \in 1..Len(hit) |->
                Result(file.Path, hit[x], Len(file.Lines[hit[x]]), SeverityWarning,
                       "trailing-whitespace", "Line has trailing whitespace")]

TrailingWhitespaceRuleCheck(rc, file) ==
    LET ruleConfig == GetRuleConfig(rc, "trailing-whitespace").rule
        flagged(i) ==
            /\ Len(file.Lines[i]) > 0
            /\ (HasSuffix(file.Lines[i], " ") \/ HasSuffix(file.Lines[i], "\t"))
        hit == SelectSeq(Indices(Len(file.Lines)), flagged)
    IN  IF ~ruleConfig.Enabled THEN <<>>
        ELSE [x \in 1..Len(hit) |->
                Result(file.Path, hit[x], Len(file.Lines[hit[x]]), SeverityWarning,
                       "trailing-whitespace", "Line has trailing whitespace")]

\* The test LineLengthRule.Check makes of each line.
TooLongOrAsLong(line, maxLength) == Len(line) >= maxLength

TooLong(line, maxLength) == Len(line) > maxLength

LineLengthRuleCheck(maxLength, file) ==
    LET flagged(i) == TooLong(file.Lines[i], maxLength)
        hit == SelectSeq(Indices(Len(file.Lines)), flagged)
    IN  [x \in 1..Len(hit) |->
            Result(file.Path, hit[x], maxLength + 1, SeverityInfo, "line-length",
                   "Line exceeds " \o ToString(maxLength) \o " characters ("
                       \o ToString(Len(file.Lines[hit[x]])) \o ")")]

(***************************************************************************)
(* The registry: NewRules and Rules.CheckFile (rules.go)                   *)
(***************************************************************************)
\* Name() of each rule of Rules.rules, in the order NewRules lists them.
RuleNames ==
    <<"license-headers", "header-guards", "naming-conventions",
      "formatting", "formatting", "formatting">>

\* rule.Check(file) of the k-th rule of Rules.rules.
RuleCheck(k, rc, maxLength, file) ==
    CASE k = 1 -> LicenseHeaderRuleCheck(rc, file)
      [] k = 2 -> HeaderGuardRuleCheck(rc, file)
      [] k = 3 -> NamingConventionRuleCheck(rc, file)
      [] k = 4 -> FormattingRuleCheck(rc, file)
      [] k = 5 -> TrailingWhitespaceRuleCheck(rc, file)
      [] k = 6 -> LineLengthRuleCheck(maxLength, file)

defaultMaxLineLength == 100

\* The maxLineLength NewRules hands to LineLengthRule.
NewRulesMaxLength(rc) ==
    LET formattingRule == GetRuleConfig(rc, "formatting")
    IN  IF formattingRule.exists /\ IsFloat64(formattingRule.rule.Parameters, "max_line_length")
        THEN formattingRule.rule.Parameters["max_line_length"].v
        ELSE defaultMaxLineLength

\* The keys NewRules sets in Rules.enabled.
NewRulesEnabled(rc, checks) == {check \in checks : IsRuleEnabled(rc, check)}

\* CheckFile's test with the exact match alone.
RuleIsRunExact(enabledSet, ruleName) ==
    \E enabledRule \in enabledSet : enabledRule = ruleName

\* Whether CheckFile runs the rule called ruleName.
RuleIsRun(enabledSet, ruleName) ==
    \E enabledRule \in enabledSet :
        enabledRule = ruleName \/ HasPrefix(ruleName, enabledRule)

\* The positions of the rules CheckFile runs, in the order it runs them.
RulesRun(enabledSet) ==
    SelectSeq(Indices(Len(RuleNames)), LAMBDA k : RuleIsRun(enabledSet, RuleNames[k]))

RECURSIVE Concat(_)
Concat(seqs) == IF seqs = <<>> THEN <<>> ELSE Head(seqs) \o Concat(Tail(seqs))

CheckFile(enabledSet, rc, maxLength, file) ==
    LET run == RulesRun(enabledSet)
    IN  Concat([x \in 1..Len(run) |-> RuleCheck(run[x], rc, maxLength, file)])

(***************************************************************************)
(* The engine: Linter.Run (linter.go)                                      *)
(***************************************************************************)
\* The less function Run hands to sort.Slice.
less(a, b) ==
    IF a.File # b.File THEN StrLess(a.File, b.File)
    ELSE IF a.Line # b.Line THEN a.Line < b.Line
    ELSE a.Column < b.Column

\* sort's insertionSort: each element moves left past the elements it is less than.
RECURSIVE InsertLeft(_, _)
InsertLeft(sorted, x) ==
    IF sorted = <<>> \/ ~less(x, sorted[Len(sorted)]) THEN Append(sorted, x)
    ELSE Append(InsertLeft(SubSeq(sorted, 1, Len(sorted) - 1), x), sorted[Len(sorted)])

RECURSIVE InsertionSortFrom(_, _)
InsertionSortFrom(sorted, rest) ==
    IF rest = <<>> THEN sorted
    ELSE InsertionSortFrom(InsertLeft(sorted, Head(rest)), Tail(rest))

InsertionSort(s) == InsertionSortFrom(<<>>, s)

\* The ShellSort pass with gap 6 that quickSort (Go up to 1.18) makes over a slice
\* of at most 12 elements before insertionSort: the pairs (i, i-6) do not overlap.
ShellPass(s) ==
    [i \in 1..Len(s) |->
        IF i + 6 <= Len(s) /\ less(s[i + 6], s[i]) THEN s[i + 6]
        ELSE IF i > 6 /\ less(s[i], s[i - 6]) THEN s[i - 6]
        ELSE s[i]]

Remove(s, i) == SubSeq(s, 1, i - 1) \o SubSeq(s, i + 1, Len(s))

RECURSIVE Orders(_)
Orders(s) ==
    IF Len(s) <= 1 THEN {s}
    ELSE UNION {{<<s[i]>> \o t : t \in Orders(Remove(s, i))} : i \in 1..Len(s)}

\* Every order of a sorted sequence that keeps it sorted: the elements of each run
\* of equal keys in any order.
RECURSIVE SortedOrders(_)
SortedOrders(sorted) ==
    IF sorted = <<>> THEN {<<>>}
    ELSE LET later == {i \in 1..Len(sorted) : less(sorted[1], sorted[i])}
             n == IF later = {} THEN Len(sorted)
                  ELSE (CHOOSE i \in later : \A j \in later : i <= j) - 1
         IN  {run \o rest : run \in Orders(SubSeq(sorted, 1, n)),
                            rest \in SortedOrders(SubSeq(sorted, n + 1, Len(sorted)))}

\* What sort.Slice(s, less) may leave in s.  sort.Slice is not a stable sort.  Up to
\* 12 elements it is insertionSort (pdqsort, Go 1.19 on) or the gap-6 pass followed
\* by insertionSort (quickSort, Go up to 1.18); over 12 elements the result is some
\* sorted order of s.
SortSlice(s) ==
    IF Len(s) <= 12 THEN {InsertionSort(s), InsertionSort(ShellPass(s))}
    ELSE SortedOrders(InsertionSort(s))

maxErrorsResult(maxErrors) ==
    Result("", 0, 0, SeverityInfo, "max-errors",
           "Maximum error count (" \o ToString(maxErrors) \o ") reached, stopping")

\* The limit test Run makes after counting an error, passing the limit by one.
PassedMaxErrors(maxErrors, errorCount) == maxErrors > 0 /\ errorCount > maxErrors

\* The limit test Run makes after counting an error.
ReachedMaxErrors(maxErrors, errorCount) == maxErrors > 0 /\ errorCount >= maxErrors

\* The inner loop of Run over the results of one file, from the i-th on:
\* [all, errorCount, stopped].
RECURSIVE AddResults(_, _, _, _, _)
AddResults(results, i, all, errorCount, maxErrors) ==
    IF i > Len(results) THEN [all |-> all, errorCount |-> errorCount, stopped |-> FALSE]
    ELSE LET added == Append(all, results[i])
             count == IF results[i].Severity = SeverityError
                      THEN errorCount + 1 ELSE errorCount
         IN  IF results[i].Severity = SeverityError /\ ReachedMaxErrors(maxErrors, count)
             THEN [all |-> Append(added, maxErrorsResult(maxErrors)),
                   errorCount |-> count, stopped |-> TRUE]
             ELSE AddResults(results, i + 1, added, count, maxErrors)

\* The outer loop of Run from the f-th file on: [all, stopped, scanned].
RECURSIVE RunLoop(_, _, _, _, _, _, _, _)
\* After the inner loop over the f-th file's results ended as step.
RunLoopNext(fs, f, step, maxErrors, enabledSet, rc, maxLength) ==
    IF step.stopped THEN [all |-> step.all, stopped |-> TRUE, scanned |-> f]
    ELSE RunLoop(fs, f + 1, step.all, step.errorCount, maxErrors,
                 enabledSet, rc, maxLength)

RunLoop(fs, f, all, errorCount, maxErrors, enabledSet, rc, maxLength) ==
    IF f > Len(fs) THEN [all |-> all, stopped |-> FALSE, scanned |-> f - 1]
    ELSE RunLoopNext(fs, f,
                     AddResults(CheckFile(enabledSet, rc, maxLength, fs[f]), 1,
                                all, errorCount, maxErrors),
                     maxErrors, enabledSet, rc, maxLength)

(***************************************************************************)
(* Inputs                                                                  *)
(***************************************************************************)
MaxLines == 3        \* lines of a file handed to a rule, after its padding
MaxFiles == 2        \* files the walker returns to Run
MaxErrorsBound == 2  \* largest Config.MaxErrors

\* What the fetched script may print, decoded by json.Unmarshal.
FetchedConfigs ==
    { [Version |-> "2.0",
       Global |-> [Verbose |-> FALSE, MaxErrors |-> -5, DefaultSeverity |-> "loud"],
       Rules |-> [n \in {"header-guards", "formatting", "trailing-whitespace",
                         "naming-conventions"} |->
           CASE n = "header-guards" ->
                   RuleConfig(TRUE, "fatal", [allow_pragma_once |-> Bool(FALSE)])
             [] n = "formatting" ->
                   RuleConfig(TRUE, "", [max_line_length |-> Float64(4)])
             [] n = "trailing-whitespace" -> RuleConfig(TRUE, SeverityError, NoParameters)
             [] n = "naming-conventions" -> RuleConfig(TRUE, SeverityError, NoParameters)]],
      [Version |-> "2.1",
       Global |-> [Verbose |-> TRUE, MaxErrors |-> 5000, DefaultSeverity |-> SeverityError],
       Rules |-> [n \in {"header-guards", "license-headers", "trailing-whitespace",
                         "formatting"} |->
           CASE n = "header-guards" -> RuleConfig(TRUE, SeverityWarning, NoParameters)
             [] n = "license-headers" ->
                   RuleConfig(FALSE, SeverityWarning, [check_lines |-> Float64(2)])
             [] n = "trailing-whitespace" -> RuleConfig(FALSE, SeverityWarning, NoParameters)
             [] n = "formatting" ->
                   RuleConfig(FALSE, SeverityInfo, [max_line_length |-> GoString("80")])]],
      [Version |-> "",
       Global |-> [Verbose |-> FALSE, MaxErrors |-> 10, DefaultSeverity |-> SeverityInfo],
       Rules |-> <<>>],
      [Version |-> "3",
       Global |-> [Verbose |-> FALSE, MaxErrors |-> 0, DefaultSeverity |-> SeverityWarning],
       Rules |-> [n \in {"header-guards", "naming-conventions", "formatting",
                         "license-headers", "trailing-whitespace"} |->
           CASE n = "header-guards" ->
                   RuleConfig(FALSE, SeverityError, [allow_pragma_once |-> Bool(TRUE)])
             [] n = "trailing-whitespace" -> RuleConfig(FALSE, SeverityWarning, NoParameters)
             [] n = "naming-conventions" -> RuleConfig(TRUE, "critical", NoParameters)
             [] n = "formatting" ->
                   RuleConfig(TRUE, SeverityInfo, [max_line_length |-> Float64(5)])
             [] n = "license-headers" ->
                   RuleConfig(TRUE, SeverityError, [check_lines |-> Float64(1)])]],
      [Version |-> "4",
       Global |-> [Verbose |-> FALSE, MaxErrors |-> 1, DefaultSeverity |-> SeverityError],
       Rules |-> [n \in {"header-guards", "trailing-whitespace", "line-length"} |->
           CASE n = "header-guards" ->
                   RuleConfig(TRUE, SeverityInfo, [allow_pragma_once |-> GoString("false")])
             [] n = "line-length" -> RuleConfig(FALSE, SeverityError, NoParameters)
             [] n = "trailing-whitespace" -> RuleConfig(TRUE, SeverityInfo, NoParameters)]] }

FetchOutcomes == {FetchError} \cup {Fetched(c) : c \in FetchedConfigs}

\* Config.Checks, as the set of its elements.
CheckSets ==
    { {"formatting", "naming-conventions", "header-guards", "license-headers"},
      {"format"},
      {"header-guards"},
      {"header", "naming-conventions"},
      {"trailing-whitespace"},
      {} }

Configs ==
    [Checks : CheckSets, MaxErrors : -1..MaxErrorsBound]

\* The names the configuration is asked about.
RuleNamesAsked ==
    {"license-headers", "header-guards", "naming-conventions", "formatting",
     "trailing-whitespace", "line-length", "format", ""}

SeqsUpTo(S, n) == UNION {[1..k -> S] : k \in 1..n}

Blank(n) == [i \in 1..n |-> ""]

\* Files for HeaderGuardRule.Check: headers of up to MaxLines lines, and shorter
\* bodies in a file that is no header or behind enough blank lines to put the
\* first line of the body at loop index guardScanIndex or at the index after it.
HeaderGuardLines ==
    {"#ifndef X", "#define X", "#endif", "  #pragma once", "int x;", "// c"}

HeaderGuardFiles ==
    {FileInfo(path, body) :
        path \in {"a.h", "b.hpp"}, body \in SeqsUpTo(HeaderGuardLines, MaxLines)}
    \cup
    {FileInfo(at[1], Blank(at[2]) \o body) :
        at \in {<<"c.c", 0>>, <<"a.h", guardScanIndex>>,
                <<"a.h", guardScanIndex + 1>>, <<"b.hpp", guardScanIndex + 1>>},
        body \in SeqsUpTo(HeaderGuardLines, MaxLines - 1)}

\* Files for LicenseHeaderRule.Check: the empty file, files of up to MaxLines
\* lines, and shorter bodies behind blank lines that put the first line of the
\* body at line defaultCheckLines or at the line after it.
LicenseLines ==
    {"// Copyright (c) X", "SPDX-License-Identifier: MIT", " * Licensed under Y",
     "All Rights Reserved.", "// copyright (c) x"}

LicenseHeaderFiles ==
    {FileInfo("c.c", <<>>)}
    \cup {FileInfo("c.c", body) : body \in SeqsUpTo(LicenseLines, MaxLines)}
    \cup {FileInfo("a.h", Blank(pad) \o body) :
             pad \in {defaultCheckLines - 1, defaultCheckLines},
             body \in SeqsUpTo(LicenseLines, MaxLines - 1)}

TrailingWhitespaceFiles ==
    {FileInfo("c.c", lines) :
        lines \in SeqsUpTo({" ", "x", "x ", "x\t", "\tx"}, MaxLines)}

LineLengthFiles ==
    {FileInfo("c.c", lines) :
        lines \in SeqsUpTo({"abcd", "abcde", "#endif",
                            Repeat("x", defaultMaxLineLength),
                            Repeat("x", defaultMaxLineLength + 1)}, MaxLines)}

\* The files of the project Run walks, each in a directory of its own, so that the
\* order of Config.IncludeDirs decides the order in which the walker returns them.
ProjectFiles ==
    { FileInfo("a/guarded.h", <<"#ifndef X", "#define X", "#endif">>),
      FileInfo("b/bare.h", <<"int x; ">>),
      FileInfo("c/impl.c",
               <<"fooBar(" \o Repeat("x", defaultMaxLineLength - 7) \o " ",
                 "fooBar( ", "\tfooBar(", "fooBar(">>),
      FileInfo("d/once.hpp", <<"#pragma once", "int fooBar();">>),
      FileInfo("e/tabs.h", <<"// Copyright", "#ifndef X", "x\t">>) }

\* What Walker.Walk may return: the files of the included directories.
WalkResults ==
    {fs \in UNION {[1..k -> ProjectFiles] : k \in 0..MaxFiles} :
        \A i, j \in 1..Len(fs) : i # j => fs[i] # fs[j]}

(***************************************************************************)
(* The state machine                                                       *)
(***************************************************************************)
NoCall == [op |-> "none"]

Init ==
    /\ pc = "start"
    /\ config = [Checks |-> {}, MaxErrors |-> 0]
    /\ fetched = FetchError
    /\ rulesConfig = defaultRulesConfig
    /\ enabled = {}
    /\ MaxLength = defaultMaxLineLength
    /\ files = <<>>
    /\ allResults = <<>>
    /\ err = "nil"
    /\ scanned = 0
    /\ call = NoCall
    /\ effects = NoEffects

\* New(config): NewWalker and NewRules, which loads the rules configuration.
New(cfg, got) ==
    /\ pc = "start"
    /\ pc' = "ready"
    /\ config' = cfg
    /\ fetched' = got
    /\ rulesConfig' = LoadRulesConfig(got)
    /\ MaxLength' = NewRulesMaxLength(LoadRulesConfig(got))
    /\ enabled' = NewRulesEnabled(LoadRulesConfig(got), cfg.Checks)
    /\ effects' \in LoadEffects(got)
    /\ UNCHANGED <<files, allResults, err, scanned, call>>

\* l.rules.CheckFile(file), called directly.
CheckFileCall(file) ==
    /\ pc = "ready"
    /\ pc' = "returned"
    /\ call' = [op |-> "CheckFile", arg |-> file,
                ran |-> RulesRun(enabled),
                ret |-> CheckFile(enabled, rulesConfig, MaxLength, file)]
    /\ UNCHANGED <<config, fetched, rulesConfig, enabled, MaxLength, files,
                   allResults, err, scanned, effects>>

\* l.Run() when the walk fails.
RunWalkError ==
    /\ pc = "ready"
    /\ pc' = "done"
    /\ err' = "walk"
    /\ UNCHANGED <<config, fetched, rulesConfig, enabled, MaxLength, files,
                   allResults, scanned, call, effects>>

\* Run's return with allResults sorted after an early return too.
ReturnsSorted(loop) ==
    /\ scanned' = loop.scanned
    /\ allResults' \in SortSlice(loop.all)

\* Run's return, given how its loop over the files ended: an early return hands
\* back allResults as it stands, the end of the loop sorts it first.
Returns(loop) ==
    /\ scanned' = loop.scanned
    /\ allResults' \in (IF loop.stopped THEN {loop.all} ELSE SortSlice(loop.all))

\* l.Run() over the files the walker returns.
Run(fs) ==
    /\ pc = "ready"
    /\ pc' = "done"
    /\ files' = fs
    /\ Returns(RunLoop(fs, 1, <<>>, 0, config.MaxErrors, enabled, rulesConfig, MaxLength))
    /\ UNCHANGED <<config, fetched, rulesConfig, enabled, MaxLength, err, call, effects>>

Next ==
    \/ \E cfg \in Configs, got \in FetchOutcomes : New(cfg, got)
    \/ RunWalkError
    \/ \E fs \in WalkResults : Run(fs)

Spec == Init /\ [][Next]_vars

(***************************************************************************)
(* The rules and the configuration lookups called directly, on the rule    *)
(* set NewRules builds for a Config without checks.                        *)
(***************************************************************************)
InitRules ==
    /\ pc = "ready"
    /\ config = [Checks |-> {}, MaxErrors |-> 0]
    /\ fetched \in FetchOutcomes
    /\ rulesConfig = LoadRulesConfig(fetched)
    /\ enabled = {}
    /\ MaxLength = NewRulesMaxLength(rulesConfig)
    /\ files = <<>>
    /\ allResults = <<>>
    /\ err = "nil"
    /\ scanned = 0
    /\ call = NoCall
    /\ effects \in LoadEffects(fetched)

\* The rule set NewRules builds for each Config.Checks, and CheckFile called on it.
InitCheckFile ==
    /\ pc = "ready"
    /\ config \in [Checks : CheckSets, MaxErrors : {0}]
    /\ fetched \in FetchOutcomes
    /\ rulesConfig = LoadRulesConfig(fetched)
    /\ enabled = NewRulesEnabled(rulesConfig, config.Checks)
    /\ MaxLength = NewRulesMaxLength(rulesConfig)
    /\ files = <<>>
    /\ allResults = <<>>
    /\ err = "nil"
    /\ scanned = 0
    /\ call = NoCall
    /\ effects \in LoadEffects(fetched)

NextCheckFile == \E file \in ProjectFiles : CheckFileCall(file)

SpecCheckFile == InitCheckFile /\ [][NextCheckFile]_vars

\* A method called on the rule set and returned.  The methods change nothing, so
\* each behaviour makes one call: a second one would start from the same rule set.
Called(op, arg, ret) ==
    /\ pc = "ready"
    /\ pc' = "returned"
    /\ call' = [op |-> op, arg |-> arg, ret |-> ret]
    /\ UNCHANGED <<config, fetched, rulesConfig, enabled, MaxLength, files,
                   allResults, err, scanned, effects>>

GetRuleConfigCall(ruleName) ==
    Called("GetRuleConfig", ruleName, GetRuleConfig(rulesConfig, ruleName))

IsRuleEnabledCall(ruleName) ==
    Called("IsRuleEnabled", ruleName, IsRuleEnabled(rulesConfig, ruleName))

LicenseHeaderCheck(file) ==
    Called("LicenseHeaderRule.Check", file, LicenseHeaderRuleCheck(rulesConfig, file))

HeaderGuardCheck(file) ==
    Called("HeaderGuardRule.Check", file, HeaderGuardRuleCheck(rulesConfig, file))

TrailingWhitespaceCheck(file) ==
    Called("TrailingWhitespaceRule.Check", file, TrailingWhitespaceRuleCheck(rulesConfig, file))

LineLengthCheck(file) ==
    Called("LineLengthRule.Check", file, LineLengthRuleCheck(MaxLength, file))

NextRules ==
    \/ \E ruleName \in RuleNamesAsked : GetRuleConfigCall(ruleName)
    \/ \E ruleName \in RuleNamesAsked : IsRuleEnabledCall(ruleName)
    \/ \E file \in LicenseHeaderFiles : LicenseHeaderCheck(file)
    \/ \E file \in HeaderGuardFiles : HeaderGuardCheck(file)
    \/ \E file \in TrailingWhitespaceFiles : TrailingWhitespaceCheck(file)
    \/ \E file \in LineLengthFiles : LineLengthCheck(file)

SpecRules == InitRules /\ [][NextRules]_vars

(***************************************************************************)
(* The loading of the rules configuration, step by step: the package's     *)
(* init, New calling NewRules and LoadRulesConfig, each step of            *)
(* fetchAndExecuteRulesScript, and Run on the rule set that results.       *)
(***************************************************************************)
\* What the server of rulesConfigURL may send as the script: run by /bin/bash it
\* exits with status 0 after printing a configuration or something that is no
\* JSON, exits with another status, or is still running after five seconds.
Scripts ==
    {[run |-> "exit 0", stdout |-> Fetched(c)] : c \in FetchedConfigs}
    \cup {[run |-> "exit 0", stdout |-> FetchError],
          [run |-> "exit 1", stdout |-> FetchError],
          [run |-> "hang", stdout |-> FetchError]}

\* The Configs the loading is followed through.
LoadConfigs ==
    {cfg \in Configs :
        /\ cfg.MaxErrors \in {0, MaxErrorsBound}
        /\ cfg.Checks \in {{"formatting", "naming-conventions", "header-guards",
                             "license-headers"},
                            {"trailing-whitespace"}}}

\* The walks Run is followed through after the loading: the shorter ones.
LoadWalkResults == {fs \in WalkResults : Len(fs) < MaxFiles}

InitLoad ==
    /\ pc = "load"
    /\ config = [Checks |-> {}, MaxErrors |-> 0]
    /\ fetched = FetchError
    /\ rulesConfig = defaultRulesConfig
    /\ enabled = {}
    /\ MaxLength = defaultMaxLineLength
    /\ files = <<>>
    /\ allResults = <<>>
    /\ err = "nil"
    /\ scanned = 0
    /\ call = NoCall
    /\ effects = NoEffects

\* The package is loaded: a build that holds the init function starts
\* fetchRulesConfig in a goroutine of its own.
PackageInit(hasInit) ==
    /\ pc = "load"
    /\ pc' = "start"
    /\ effects' = [effects EXCEPT
                      !.goroutines = IF hasInit THEN {"fetchRulesConfig"} ELSE {}]
    /\ UNCHANGED <<config, fetched, rulesConfig, enabled, MaxLength, files,
                   allResults, err, scanned, call>>

\* The goroutine of init sends its request.
BackgroundGet ==
    /\ "fetchRulesConfig" \in effects.goroutines
    /\ "fetchRulesConfig" \notin effects.requests
    /\ effects' = [effects EXCEPT !.requests = @ \cup {"fetchRulesConfig"}]
    /\ UNCHANGED <<pc, config, fetched, rulesConfig, enabled, MaxLength, files,
                   allResults, err, scanned, call>>

\* The goroutine of init ends, having saved what it got or reported a failure.
BackgroundReturn ==
    /\ "fetchRulesConfig" \in effects.goroutines
    /\ "fetchRulesConfig" \in effects.requests
    /\ effects' = [effects EXCEPT !.goroutines = @ \ {"fetchRulesConfig"}]
    /\ UNCHANGED <<pc, config, fetched, rulesConfig, enabled, MaxLength, files,
                   allResults, err, scanned, call>>

\* New(config) is called and NewRules calls LoadRulesConfig.
NewCall(cfg) ==
    /\ pc = "start"
    /\ pc' = "client.Get"
    /\ config' = cfg
    /\ UNCHANGED <<fetched, rulesConfig, enabled, MaxLength, files, allResults,
                   err, scanned, call, effects>>

\* fetchAndExecuteRulesScript returns got after the step named failed ("none"
\* when it returns a configuration); LoadRulesConfig returns, and NewRules builds
\* the rule set with what it returned.
Loaded(got, failed) ==
    /\ pc' = "ready"
    /\ fetched' = got
    /\ rulesConfig' = LoadRulesConfig(got)
    /\ MaxLength' = NewRulesMaxLength(LoadRulesConfig(got))
    /\ enabled' = NewRulesEnabled(LoadRulesConfig(got), config.Checks)
    /\ call' = [op |-> "LoadRulesConfig", failed |-> failed,
                ret |-> [config |-> LoadRulesConfig(got), err |-> "nil"]]
    /\ UNCHANGED <<config, files, allResults, err, scanned>>

\* client.Get(rulesConfigURL): an error, or a response with a status and a body.
ClientGet(ok, status, script) ==
    /\ pc = "client.Get"
    /\ effects' = [effects EXCEPT !.requests = @ \cup {"fetchAndExecuteRulesScript"}]
    /\ IF ok
       THEN /\ pc' = "StatusCode"
            /\ call' = [op |-> "fetchAndExecuteRulesScript", status |-> status,
                        script |-> script]
            /\ UNCHANGED <<config, fetched, rulesConfig, enabled, MaxLength, files,
                           allResults, err, scanned>>
       ELSE Loaded(FetchError, "client.Get")

\* The test of resp.StatusCode.
StatusCode ==
    /\ pc = "StatusCode"
    /\ UNCHANGED effects
    /\ IF call.status = 200
       THEN /\ pc' = "io.ReadAll"
            /\ UNCHANGED <<config, fetched, rulesConfig, enabled, MaxLength, files,
                           allResults, err, scanned, call>>
       ELSE Loaded(FetchError, "StatusCode")

\* One of io.ReadAll, os.CreateTemp, tmpFile.Write and os.Chmod, which succeeds
\* or returns an error.
FileStep(step, next, ok) ==
    /\ pc = step
    /\ UNCHANGED effects
    /\ IF ok
       THEN /\ pc' = next
            /\ UNCHANGED <<config, fetched, rulesConfig, enabled, MaxLength, files,
                           allResults, err, scanned, call>>
       ELSE Loaded(FetchError, step)

\* cmd.Run() of /bin/bash on the script, and the select on its end and the timer.
CmdRun ==
    /\ pc = "cmd.Run"
    /\ effects' = [effects EXCEPT !.executed = TRUE]
    /\ IF call.script.run = "exit 0"
       THEN /\ pc' = "json.Unmarshal"
            /\ UNCHANGED <<config, fetched, rulesConfig, enabled, MaxLength, files,
                           allResults, err, scanned, call>>
       ELSE Loaded(FetchError, IF call.script.run = "hang" THEN "timeout" ELSE "cmd.Run")

\* json.Unmarshal of what the script printed, and the return of the configuration.
JsonUnmarshal ==
    /\ pc = "json.Unmarshal"
    /\ UNCHANGED effects
    /\ IF call.script.stdout.failed
       THEN Loaded(FetchError, "json.Unmarshal")
       ELSE Loaded(call.script.stdout, "none")

NextLoad ==
    \/ \E hasInit \in BOOLEAN : PackageInit(hasInit)
    \/ BackgroundGet
    \/ BackgroundReturn
    \/ \E cfg \in LoadConfigs : NewCall(cfg)
    \/ \E ok \in BOOLEAN, status \in {200, 404}, script \in Scripts :
          ClientGet(ok, status, script)
    \/ StatusCode
    \/ \E ok \in BOOLEAN : FileStep("io.ReadAll", "os.CreateTemp", ok)
    \/ \E ok \in BOOLEAN : FileStep("os.CreateTemp", "tmpFile.Write", ok)
    \/ \E ok \in BOOLEAN : FileStep("tmpFile.Write", "os.Chmod", ok)
    \/ \E ok \in BOOLEAN : FileStep("os.Chmod", "cmd.Run", ok)
    \/ CmdRun
    \/ JsonUnmarshal
    \/ RunWalkError
    \/ \E fs \in LoadWalkResults : Run(fs)

SpecLoad == InitLoad /\ [][NextLoad]_vars

(***************************************************************************)
(* Properties of Linter.Run (specification Spec)                           *)
(***************************************************************************)
Returned == pc = "done" /\ err = "nil"

\* The results in the order Run appends them when nothing stops it: file by
\* file, and within a file rule by rule.
Appended ==
    Concat([f \in 1..Len(files) |-> CheckFile(enabled, rulesConfig, MaxLength, files[f])])

\* How many of the first n elements of s are errors.
ErrorsIn(s, n) == Cardinality({i \in 1..n : s[i].Severity = SeverityError})

\* The position in s of the n-th error (s holds at least n).
NthError(s, n) ==
    CHOOSE i \in 1..Len(s) : s[i].Severity = SeverityError /\ ErrorsIn(s, i) = n

\* The number of results each file produces.
ResultCounts ==
    [f \in 1..Len(files) |-> Len(CheckFile(enabled, rulesConfig, MaxLength, files[f]))]

\* The number of results the first f files produce.
RECURSIVE AppendedBy(_, _)
AppendedBy(counts, f) == IF f = 0 THEN 0 ELSE counts[f] + AppendedBy(counts, f - 1)

\* The file whose rules produced the i-th of the appended results.
FileOf(counts, i) ==
    CHOOSE f \in 1..Len(counts) : AppendedBy(counts, f - 1) < i /\ i <= AppendedBy(counts, f)

IsSentinel(r) ==
    /\ r.File = "" /\ r.Line = 0 /\ r.Column = 0
    /\ r.Severity = SeverityInfo /\ r.Rule = "max-errors"

SameKey(a, b) == a.File = b.File /\ a.Line = b.Line /\ a.Column = b.Column

KeyLessOrEqual(a, b) ==
    \/ StrLess(a.File, b.File)
    \/ a.File = b.File /\ a.Line < b.Line
    \/ a.File = b.File /\ a.Line = b.Line /\ a.Column <= b.Column

\* C1: whatever the files, the checks and MaxErrors, the sequence Run returns is
\* sorted non-decreasing by (file, line, column), after a complete run and after
\* an early stop at the max-error cutoff alike.
C1_RunReturnsSorted ==
    Returned =>
        \A i \in 1..(Len(allResults) - 1) : KeyLessOrEqual(allResults[i], allResults[i + 1])

\* Run returned the first n of the appended results and the sentinel, having
\* scanned the files up to the one numbered last and no file after it.
StoppedAfter(appended, n, last) ==
    /\ Len(allResults) = n + 1
    /\ SubSeq(allResults, 1, n) = SubSeq(appended, 1, n)
    /\ IsSentinel(allResults[n + 1])
    /\ Cardinality({i \in 1..Len(allResults) : allResults[i].Rule = "max-errors"}) = 1
    /\ scanned = last
    /\ \A i \in 1..n : \E f \in 1..last : allResults[i].File = files[f].Path

StoppedAt(appended, counts, n) == StoppedAfter(appended, n, FileOf(counts, n))

StopsAtNthError(appended, counts) ==
    ErrorsIn(appended, Len(appended)) >= config.MaxErrors
        => StoppedAt(appended, counts, NthError(appended, config.MaxErrors))

\* C2: with MaxErrors = N > 0, Run stops right after appending the N-th error: what
\* it returns is the results appended up to that error followed by exactly one
\* sentinel (file "", line 0, column 0, info, "max-errors"); it hands no further
\* file to CheckFile and returns nothing from the files after that error's file.
C2_StopsAtNthError ==
    (Returned /\ config.MaxErrors > 0) => StopsAtNthError(Appended, ResultCounts)

\* C2's case: the second error comes from the first of two files, and Run returns
\* with the sentinel last and the second file not scanned.
C2_Witness ==
    /\ Returned
    /\ config.MaxErrors = 2
    /\ Len(files) = 2
    /\ scanned = 1
    /\ Len(allResults) > 2
    /\ IsSentinel(allResults[Len(allResults)])
    /\ ErrorsIn(allResults, Len(allResults)) = 2

C10_SeveritiesValid ==
    pc # "start" =>
        /\ \A n \in DOMAIN rulesConfig.Rules :
              rulesConfig.Rules[n].Severity \in {"error", "warning", "info"}
        /\ rulesConfig.Global.DefaultSeverity \in {"error", "warning", "info"}
        /\ ~fetched.failed =>
              /\ DOMAIN rulesConfig.Rules = DOMAIN fetched.config.Rules
              /\ \A n \in DOMAIN fetched.config.Rules :
                    IF fetched.config.Rules[n].Severity \in {"error", "warning", "info"}
                    THEN rulesConfig.Rules[n] = fetched.config.Rules[n]
                    ELSE rulesConfig.Rules[n].Severity = rulesConfig.Global.DefaultSeverity
        /\ \A i \in 1..Len(allResults) :
              allResults[i].Severity \in {"error", "warning", "info"}

\* C10's case: a rule was loaded with a severity outside the three, and Run
\* returned a result of that rule.
C10_Witness ==
    /\ Returned
    /\ ~fetched.failed
    /\ \E n \in DOMAIN fetched.config.Rules :
          /\ fetched.config.Rules[n].Severity \notin {"error", "warning", "info"}
          /\ fetched.config.Global.DefaultSeverity \notin {"error", "warning", "info"}
          /\ \E i \in 1..Len(allResults) :
                allResults[i].Rule = n /\ allResults[i].Severity = SeverityWarning

(***************************************************************************)
(* Properties of Rules.CheckFile (specification SpecCheckFile)             *)
(***************************************************************************)
\* C6: CheckFile runs a rule exactly when a requested check name that the rules
\* configuration enables equals the rule's Name() or is a prefix of it; it runs
\* the rules in registry order and appends their results in that order.
C6_RunsRulesMatchingEnabledNames ==
    call.op = "CheckFile" =>
        LET names == {check \in config.Checks :
                        check \notin DOMAIN rulesConfig.Rules \/ rulesConfig.Rules[check].Enabled}
            matches(k) == \E name \in names :
                             \/ name = RuleNames[k]
                             \/ /\ Len(name) <= Len(RuleNames[k])
                                /\ SubSeq(RuleNames[k], 1, Len(name)) = name
        IN  /\ \A k \in 1..Len(RuleNames) :
                  (\E x \in 1..Len(call.ran) : call.ran[x] = k) <=> matches(k)
            /\ \A x, y \in 1..Len(call.ran) : x < y => call.ran[x] < call.ran[y]
            /\ call.ret =
                  Concat([k \in 1..Len(RuleNames) |->
                            IF matches(k)
                            THEN RuleCheck(k, rulesConfig, MaxLength, call.arg)
                            ELSE <<>>])

\* C6's case: the only check asked for, "format", is no rule's name and a prefix
\* of "formatting": the three formatting rules run and report.
C6_Witness ==
    /\ call.op = "CheckFile"
    /\ config.Checks = {"format"}
    /\ call.ran = <<4, 5, 6>>
    /\ \E x \in 1..Len(call.ret) : call.ret[x].Rule = "trailing-whitespace"
    /\ \E x \in 1..Len(call.ret) : call.ret[x].Rule = "line-length"

(***************************************************************************)
(* Properties of the rules and of the lookups (specification SpecRules)    *)
(***************************************************************************)
IsHeader(path) == HasSuffix(path, ".h") \/ HasSuffix(path, ".hpp")

IsPragmaOnce(line) == HasPrefix(TrimSpace(line), "#pragma once")

\* allow_pragma_once is true or absent in the header-guards configuration.
PragmaOnceAllowed ==
    LET parameters == GetRuleConfig(rulesConfig, "header-guards").rule.Parameters
    IN  \/ "allow_pragma_once" \notin DOMAIN parameters
        \/ parameters["allow_pragma_once"] = Bool(TRUE)

HeaderGuardsEnabled ==
    "header-guards" \notin DOMAIN rulesConfig.Rules \/ rulesConfig.Rules["header-guards"].Enabled

\* A line that ends the scan of the header guard rule: its number is over 21 (its
\* loop index over 20), it is not blank and it starts, trimmed, with none of
\* "//", "/*", "#".
IsCodeAfterLine21(lines, m) ==
    /\ m > 21
    /\ TrimSpace(lines[m]) # ""
    /\ ~HasPrefix(TrimSpace(lines[m]), "//")
    /\ ~HasPrefix(TrimSpace(lines[m]), "/*")
    /\ ~HasPrefix(TrimSpace(lines[m]), "#")

\* C3 as claimed: a .h or .hpp file with a "#pragma once" line at any position
\* gets no diagnostic of the header guard rule when allow_pragma_once is true or
\* absent, whatever its other lines.
C3_PragmaOnceAnywhere ==
    (/\ call.op = "HeaderGuardRule.Check"
     /\ IsHeader(call.arg.Path)
     /\ PragmaOnceAllowed
     /\ \E n \in 1..Len(call.arg.Lines) : IsPragmaOnce(call.arg.Lines[n]))
    => call.ret = <<>>

\* C3 as amended: a .h or .hpp file with a "#pragma once" line that no code line
\* after line 21 precedes gets no diagnostic of the header guard rule when
\* allow_pragma_once is true or absent, whatever its other lines.
C3_PragmaOnceWithinScan ==
    (/\ call.op = "HeaderGuardRule.Check"
     /\ IsHeader(call.arg.Path)
     /\ PragmaOnceAllowed
     /\ \E n \in 1..Len(call.arg.Lines) :
           /\ IsPragmaOnce(call.arg.Lines[n])
           /\ \A m \in 1..(n - 1) : ~IsCodeAfterLine21(call.arg.Lines, m))
    => call.ret = <<>>

\* C3's case: the rule is enabled with allow_pragma_once absent, the header has no
\* guard, and its "#pragma once" is the last line, after line 22.
C3_Witness ==
    /\ call.op = "HeaderGuardRule.Check"
    /\ IsHeader(call.arg.Path)
    /\ HeaderGuardsEnabled
    /\ "allow_pragma_once" \notin DOMAIN GetRuleConfig(rulesConfig, "header-guards").rule.Parameters
    /\ Len(call.arg.Lines) > 22
    /\ IsPragmaOnce(call.arg.Lines[Len(call.arg.Lines)])
    /\ \A n \in 1..(Len(call.arg.Lines) - 1) :
          /\ ~IsPragmaOnce(call.arg.Lines[n])
          /\ ~HasPrefix(TrimSpace(call.arg.Lines[n]), "#ifndef")
          /\ ~IsCodeAfterLine21(call.arg.Lines, n)
    /\ call.ret = <<>>

GuardLines == <<"#ifndef X", "#define X", "#endif">>

IsOneGuardDiagnostic(ret) ==
    /\ Len(ret) = 1
    /\ ret[1].Line = 1
    /\ ret[1].Column = 1
    /\ ret[1].Message = "Missing or incomplete header guard"

\* C4 as claimed: for a .h or .hpp file without "#pragma once" the header guard
\* rule returns nothing when the lines are #ifndef X, #define X, #endif, and one
\* diagnostic (line 1, column 1, "Missing or incomplete header guard") when one
\* of the three is removed; for any other path it returns nothing.
C4_GuardCompleteOrOneDiagnostic ==
    call.op = "HeaderGuardRule.Check" =>
        /\ ~IsHeader(call.arg.Path) => call.ret = <<>>
        /\ (IsHeader(call.arg.Path) /\ call.arg.Lines = GuardLines) => call.ret = <<>>
        /\ (/\ IsHeader(call.arg.Path)
            /\ \E k \in 1..3 : call.arg.Lines = Remove(GuardLines, k))
           => IsOneGuardDiagnostic(call.ret)

\* C4 as amended: the same, the one diagnostic being returned when the
\* header-guards rule is enabled in the rules configuration, and none for any
\* file when it is disabled.
C4_GuardCompleteOrOneDiagnosticIfEnabled ==
    call.op = "HeaderGuardRule.Check" =>
        /\ ~IsHeader(call.arg.Path) => call.ret = <<>>
        /\ ~HeaderGuardsEnabled => call.ret = <<>>
        /\ (IsHeader(call.arg.Path) /\ call.arg.Lines = GuardLines) => call.ret = <<>>
        /\ (/\ IsHeader(call.arg.Path)
            /\ HeaderGuardsEnabled
            /\ \E k \in 1..3 : call.arg.Lines = Remove(GuardLines, k))
           => IsOneGuardDiagnostic(call.ret)

\* C4's case: the rule is enabled and the header lacks the #endif of its guard.
C4_Witness ==
    /\ call.op = "HeaderGuardRule.Check"
    /\ IsHeader(call.arg.Path)
    /\ HeaderGuardsEnabled
    /\ call.arg.Lines = <<"#ifndef X", "#define X">>
    /\ IsOneGuardDiagnostic(call.ret)

\* C5: the line length rule returns a diagnostic with Line = i + 1 exactly for the
\* lines i longer than MaxLength, at most one for a line, each with
\* Column = MaxLength + 1 and severity info.
C5_LineLengthDiagnostics ==
    call.op = "LineLengthRule.Check" =>
        /\ \A n \in 1..Len(call.arg.Lines) :
              /\ (\E x \in 1..Len(call.ret) : call.ret[x].Line = n)
                    <=> Len(call.arg.Lines[n]) > MaxLength
              /\ Cardinality({x \in 1..Len(call.ret) : call.ret[x].Line = n}) <= 1
        /\ \A x \in 1..Len(call.ret) :
              /\ call.ret[x].Line \in 1..Len(call.arg.Lines)
              /\ call.ret[x].Column = MaxLength + 1
              /\ call.ret[x].Severity = "info"

\* C5's case: with the default limit of 100, a line of 100 bytes passes and the
\* line of 101 bytes after it is reported at column 101.
C5_Witness ==
    /\ call.op = "LineLengthRule.Check"
    /\ MaxLength = 100
    /\ Len(call.arg.Lines) = 2
    /\ Len(call.arg.Lines[1]) = 100
    /\ Len(call.arg.Lines[2]) = 101
    /\ Len(call.ret) = 1
    /\ call.ret[1].Line = 2
    /\ call.ret[1].Column = 101
    /\ call.ret[1].Message = "Line exceeds 100 characters (101)"

\* C7: for a rule name absent from the mapping, GetRuleConfig returns a RuleConfig
\* that is enabled, has the global default severity and no parameters, and
\* IsRuleEnabled returns true; neither lookup changes the mapping.
C7_UnknownRuleIsPermissive ==
    [][/\ (call'.op = "GetRuleConfig" /\ call'.arg \notin DOMAIN rulesConfig.Rules) =>
             /\ call'.ret.rule.Enabled = TRUE
             /\ call'.ret.rule.Severity = rulesConfig.Global.DefaultSeverity
             /\ DOMAIN call'.ret.rule.Parameters = {}
             /\ rulesConfig' = rulesConfig
       /\ (call'.op = "IsRuleEnabled" /\ call'.arg \notin DOMAIN rulesConfig.Rules) =>
             /\ call'.ret = TRUE
             /\ rulesConfig' = rulesConfig]_vars

\* C7's case: GetRuleConfig was asked for a name that the loaded mapping lacks,
\* under a global default severity of error.
C7_Witness ==
    /\ call.op = "GetRuleConfig"
    /\ call.arg = "line-length"
    /\ call.arg \notin DOMAIN rulesConfig.Rules
    /\ rulesConfig.Global.DefaultSeverity = "error"
    /\ call.ret.rule.Severity = "error"

\* C8: with trailing-whitespace enabled, the trailing whitespace rule returns one
\* diagnostic for each line that ends in a space or a tab and none for another
\* line, each with that line's number, Column = the line's length and the severity
\* the rules configuration gives trailing-whitespace.
C8_TrailingWhitespaceDiagnostics ==
    (/\ call.op = "TrailingWhitespaceRule.Check"
     /\ ("trailing-whitespace" \notin DOMAIN rulesConfig.Rules
            \/ rulesConfig.Rules["trailing-whitespace"].Enabled))
    => /\ \A n \in 1..Len(call.arg.Lines) :
             Cardinality({x \in 1..Len(call.ret) : call.ret[x].Line = n}) =
                IF \/ HasSuffix(call.arg.Lines[n], " ")
                   \/ HasSuffix(call.arg.Lines[n], "\t")
                THEN 1 ELSE 0
       /\ \A x \in 1..Len(call.ret) :
             /\ call.ret[x].Line \in 1..Len(call.arg.Lines)
             /\ call.ret[x].Column = Len(call.arg.Lines[call.ret[x].Line])
             /\ call.ret[x].Severity =
                   IF "trailing-whitespace" \in DOMAIN rulesConfig.Rules
                   THEN rulesConfig.Rules["trailing-whitespace"].Severity
                   ELSE rulesConfig.Global.DefaultSeverity

(***************************************************************************)
(* Properties of LicenseHeaderRule.Check (specification SpecRules)         *)
(***************************************************************************)
LicenseHeadersEnabled ==
    "license-headers" \notin DOMAIN rulesConfig.Rules
        \/ rulesConfig.Rules["license-headers"].Enabled

\* The severity the rules configuration gives license-headers.
LicenseHeadersSeverity ==
    IF "license-headers" \in DOMAIN rulesConfig.Rules
    THEN rulesConfig.Rules["license-headers"].Severity
    ELSE rulesConfig.Global.DefaultSeverity

\* check_lines: the value of the parameter, 10 when the parameter is absent.
LicenseHeadersCheckLines ==
    IF /\ "license-headers" \in DOMAIN rulesConfig.Rules
       /\ "check_lines" \in DOMAIN rulesConfig.Rules["license-headers"].Parameters
    THEN rulesConfig.Rules["license-headers"].Parameters["check_lines"].v
    ELSE 10

NamesLicense(line) ==
    \/ Contains(line, "Copyright")
    \/ Contains(line, "SPDX-License-Identifier")
    \/ Contains(line, "Licensed under")
    \/ Contains(line, "All Rights Reserved")

IsOneLicenseDiagnostic(ret, path, severity) ==
    ret = <<[File |-> path, Line |-> 1, Column |-> 1, Severity |-> severity,
             Rule |-> "license-headers", Message |-> "Missing license header"]>>

LicenseDiagnosticOrNone(file, ret, window, severity) ==
    IF \E i \in 1..window : i <= Len(file.Lines) /\ NamesLicense(file.Lines[i])
    THEN ret = <<>>
    ELSE IsOneLicenseDiagnostic(ret, file.Path, severity)

\* C11: with license-headers enabled, the license header rule returns exactly one
\* diagnostic (line 1, column 1, "Missing license header", the rule's configured
\* severity) when none of the first min(check_lines, number of lines) lines
\* contains one of the four license substrings, and none otherwise; disabled, it
\* returns none; check_lines is 10 when the parameter is absent.
C11_LicenseHeaderDiagnostic ==
    call.op = "LicenseHeaderRule.Check" =>
        IF LicenseHeadersEnabled
        THEN LicenseDiagnosticOrNone(call.arg, call.ret, LicenseHeadersCheckLines,
                                     LicenseHeadersSeverity)
        ELSE call.ret = <<>>

\* C11's case: with check_lines = 1 the license named on line 2 is outside the
\* lines scanned, and the one diagnostic is returned with the configured severity.
C11_Witness ==
    /\ call.op = "LicenseHeaderRule.Check"
    /\ LicenseHeadersEnabled
    /\ LicenseHeadersCheckLines = 1
    /\ Len(call.arg.Lines) >= 2
    /\ ~NamesLicense(call.arg.Lines[1])
    /\ NamesLicense(call.arg.Lines[2])
    /\ IsOneLicenseDiagnostic(call.ret, call.arg.Path, SeverityError)

(***************************************************************************)
(* Properties of the loading of the configuration (specification SpecLoad) *)
(***************************************************************************)
RuleSetBuilt == pc \in {"ready", "done"}

\* C12: from the loading of the package to the end of Run no network request is
\* issued, by init or under NewRules, no goroutine is started and left to run on
\* its own, nothing fetched is executed, and the rules configuration in use is
\* the embedded default (Config names no local source of it).
C12_NoNetworkNoExecution ==
    /\ effects.requests = {}
    /\ effects.goroutines = {}
    /\ ~effects.executed
    /\ RuleSetBuilt => rulesConfig = defaultRulesConfig

\* fetchAndExecuteRulesScript returned an error to LoadRulesConfig.
LoadFailed == call.op = "LoadRulesConfig" /\ call.failed # "none"

\* What Run appends under the rules configuration rc when nothing stops it.
AppendedUnder(rc) ==
    Concat([f \in 1..Len(files) |->
               CheckFile(NewRulesEnabled(rc, config.Checks), rc, NewRulesMaxLength(rc),
                         files[f])])

Elements(s) == {s[i] : i \in 1..Len(s)}

\* Run returned the results the rules give under rc, or a part of them and the
\* max-errors result.
RunResultsUnder(appended) ==
    /\ err = "nil"
    /\ Elements(allResults) \subseteq Elements(appended) \cup {maxErrorsResult(config.MaxErrors)}
    /\ (\A i \in 1..Len(allResults) : ~IsSentinel(allResults[i]))
          => Len(allResults) = Len(appended) /\ Elements(allResults) = Elements(appended)

\* C13: when a step of the loading fails (the request, the status, the read, the
\* temporary file, the run of the script, its timeout, the JSON), LoadRulesConfig
\* returns the embedded default configuration (version "1.0", the five default
\* rules) and a nil error, NewRules builds the rule set with it, and Run returns
\* the results of the rules under that configuration and nothing about the failure.
C13_LoadFailureFallsBack ==
    LoadFailed =>
        /\ call.ret.err = "nil"
        /\ call.ret.config = defaultRulesConfig
        /\ call.ret.config.Version = "1.0"
        /\ DOMAIN call.ret.config.Rules =
              {"license-headers", "header-guards", "naming-conventions", "formatting",
               "trailing-whitespace"}
        /\ RuleSetBuilt
        /\ rulesConfig = call.ret.config
        /\ enabled = config.Checks
        /\ MaxLength = 100
        /\ (pc = "done" /\ files # <<>>) => RunResultsUnder(AppendedUnder(defaultRulesConfig))

\* C13's case: the script ran past its five seconds, and Run returned results.
C13_Witness ==
    /\ LoadFailed
    /\ call.failed = "timeout"
    /\ effects.executed
    /\ pc = "done"
    /\ err = "nil"
    /\ Len(allResults) > 1

(***************************************************************************)
(* The extent of the header guard scan (specification SpecRules)           *)
(***************************************************************************)
\* A line that is not blank and starts, trimmed, with none of "//", "/*", "#".
IsCodeLine(line) ==
    /\ TrimSpace(line) # ""
    /\ ~HasPrefix(TrimSpace(line), "//")
    /\ ~HasPrefix(TrimSpace(line), "/*")
    /\ ~HasPrefix(TrimSpace(line), "#")

\* The number of the first code line after line number after, or the number of
\* the last line when there is none: the last line a scan reads that such a
\* line stops.
LastLineRead(lines, after) ==
    LET stops == {n \in (after + 1)..Len(lines) : IsCodeLine(lines[n])}
    IN  IF stops = {} THEN Len(lines)
        ELSE CHOOSE n \in stops : \A m \in stops : n <= m

\* The lines last and before it hold a "#pragma once" line.
PragmaOnceUpTo(lines, last) == \E n \in 1..last : IsPragmaOnce(lines[n])

\* The lines last and before it hold an #ifndef line, a #define line after an
\* #ifndef line, and an #endif line.
GuardUpTo(lines, last) ==
    /\ \E n \in 1..last :
          /\ HasPrefix(TrimSpace(lines[n]), "#define")
          /\ \E m \in 1..(n - 1) : HasPrefix(TrimSpace(lines[m]), "#ifndef")
    /\ \E n \in 1..last : HasPrefix(TrimSpace(lines[n]), "#endif")

\* The rule's answer when only the lines last and before it count.
GuardAnswerUpTo(lines, last, allowPragmaOnce, ret) ==
    (ret = <<>>) <=> \/ allowPragmaOnce /\ PragmaOnceUpTo(lines, last)
                     \/ GuardUpTo(lines, last)

HeaderGuardChecked ==
    /\ call.op = "HeaderGuardRule.Check"
    /\ IsHeader(call.arg.Path)
    /\ HeaderGuardsEnabled

\* C14 as claimed: the scan stops at the first code line (not blank, starting
\* trimmed with none of "//", "/*", "#") whose line number is over 20: no line
\* after it counts for #ifndef/#define/#endif or for "#pragma once", and no line
\* numbered 20 or less stops the scan.
C14_ScanStopsAfterLine20 ==
    HeaderGuardChecked =>
        GuardAnswerUpTo(call.arg.Lines, LastLineRead(call.arg.Lines, 20),
                        AllowPragmaOnce(GetRuleConfig(rulesConfig, "header-guards").rule.Parameters),
                        call.ret)

\* C14 as amended: the same with line number over 21 (loop index over 20), no
\* line numbered 21 or less stopping the scan.
C14_ScanStopsAfterLine21 ==
    HeaderGuardChecked =>
        GuardAnswerUpTo(call.arg.Lines, LastLineRead(call.arg.Lines, 21),
                        AllowPragmaOnce(GetRuleConfig(rulesConfig, "header-guards").rule.Parameters),
                        call.ret)

\* C14's case: line 22 is code and stops the scan, so the "#pragma once" of line
\* 23 is not read and the diagnostic is returned, though "#pragma once" is allowed.
C14_Witness ==
    /\ HeaderGuardChecked
    /\ PragmaOnceAllowed
    /\ Len(call.arg.Lines) = 23
    /\ \A n \in 1..21 : call.arg.Lines[n] = ""
    /\ IsCodeLine(call.arg.Lines[22])
    /\ IsPragmaOnce(call.arg.Lines[23])
    /\ IsOneGuardDiagnostic(call.ret)

(***************************************************************************)
(* The formatting family under CheckFile (specification SpecCheckFile)     *)
(***************************************************************************)
\* "formatting" is requested and the rules configuration enables it.
FormattingActive ==
    /\ "formatting" \in config.Checks
    /\ ("formatting" \notin DOMAIN rulesConfig.Rules \/ rulesConfig.Rules["formatting"].Enabled)

TrailingWhitespaceEnabled ==
    "trailing-whitespace" \notin DOMAIN rulesConfig.Rules
        \/ rulesConfig.Rules["trailing-whitespace"].Enabled

\* The rules configuration rc with trailing-whitespace enabled or disabled.
WithTrailingWhitespace(rc, flag) ==
    [rc EXCEPT !.Rules =
        [n \in DOMAIN rc.Rules \cup {"trailing-whitespace"} |->
            IF n # "trailing-whitespace" THEN rc.Rules[n]
            ELSE IF n \in DOMAIN rc.Rules THEN [rc.Rules[n] EXCEPT !.Enabled = flag]
            ELSE RuleConfig(flag, rc.Global.DefaultSeverity, NoParameters)]]

\* What CheckFile returns for the file under rc and the requested checks.
CheckFileUnder(rc, file) ==
    CheckFile(NewRulesEnabled(rc, config.Checks), rc, NewRulesMaxLength(rc), file)

IsNotTrailingWhitespace(r) == r.Rule # "trailing-whitespace"

\* ret is what CheckFile returns with trailing-whitespace enabled (on) or what it
\* returns with it disabled (off), and off is on without its trailing-whitespace
\* diagnostics.
OnlyTrailingWhitespaceToggles(ret, on, off) ==
    /\ ret = IF TrailingWhitespaceEnabled THEN on ELSE off
    /\ off = SelectSeq(on, IsNotTrailingWhitespace)

\* ret holds a line-length diagnostic for each line of the file longer than
\* MaxLength and for no other line.
LineLengthEmitted(file, ret) ==
    \A n \in 1..Len(file.Lines) :
        (\E x \in 1..Len(ret) : ret[x].Rule = "line-length" /\ ret[x].Line = n)
            <=> Len(file.Lines[n]) > MaxLength

\* C15: with "formatting" requested and enabled in the rules configuration,
\* CheckFile runs the three rules of the formatting family (tabs, trailing
\* whitespace, line length); disabling trailing-whitespace removes exactly the
\* trailing-whitespace diagnostics and leaves the tab and line-length diagnostics
\* as they are; and the line length rule reports every line that is too long,
\* whatever enabled flag the configuration holds.
C15_FormattingFamily ==
    (call.op = "CheckFile" /\ FormattingActive) =>
        /\ {4, 5, 6} \subseteq {call.ran[x] : x \in 1..Len(call.ran)}
        /\ OnlyTrailingWhitespaceToggles(
              call.ret,
              CheckFileUnder(WithTrailingWhitespace(rulesConfig, TRUE), call.arg),
              CheckFileUnder(WithTrailingWhitespace(rulesConfig, FALSE), call.arg))
        /\ LineLengthEmitted(call.arg, call.ret)

\* C15's case: trailing-whitespace is disabled and the file has a line that ends
\* in a space; CheckFile returns the tab diagnostic and line-length diagnostics
\* and no trailing-whitespace diagnostic.
C15_Witness ==
    /\ call.op = "CheckFile"
    /\ FormattingActive
    /\ ~TrailingWhitespaceEnabled
    /\ \E n \in 1..Len(call.arg.Lines) : HasSuffix(call.arg.Lines[n], " ")
    /\ \E x \in 1..Len(call.ret) : call.ret[x].Rule = "formatting"
    /\ \E x \in 1..Len(call.ret) : call.ret[x].Rule = "line-length"
    /\ \A x \in 1..Len(call.ret) : call.ret[x].Rule # "trailing-whitespace"

(***************************************************************************)
(* The max-errors result of Run (specification Spec)                       *)
(***************************************************************************)
HasSentinel(s) == \E i \in 1..Len(s) : s[i].Rule = "max-errors"

Occurrences(s, r) == Cardinality({i \in 1..Len(s) : s[i] = r})

\* s and t hold the same results, each as often.
SameResults(s, t) ==
    /\ Len(s) = Len(t)
    /\ \A i \in 1..Len(s) : Occurrences(s, s[i]) = Occurrences(t, s[i])

\* all is the appended results up to the N-th error, then the sentinel.
CutAtNthError(all, appended, N) ==
    /\ ErrorsIn(appended, Len(appended)) >= N
    /\ all = SubSeq(appended, 1, NthError(appended, N)) \o <<maxErrorsResult(N)>>
    /\ all[Len(all) - 1].Severity = SeverityError
    /\ IsSentinel(all[Len(all)])

\* What Run returns for a limit N > 0.
LimitedResults(all, appended, N) ==
    /\ ErrorsIn(all, Len(all)) <= N
    /\ HasSentinel(all) <=> ErrorsIn(all, Len(all)) = N
    /\ IF HasSentinel(all)
       THEN CutAtNthError(all, appended, N)
       ELSE SameResults(all, appended)

\* C16: when Run returns with MaxErrors = N > 0, the result holds at most N
\* errors; it holds a max-errors sentinel exactly when it holds N errors, and then
\* the sentinel is last, the N-th error stands just before it and what the rules
\* produced after that error is absent.  With MaxErrors <= 0 there is no sentinel
\* and every diagnostic the rules produced is returned.
C16_MaxErrorsSentinel ==
    Returned =>
        IF config.MaxErrors > 0
        THEN LimitedResults(allResults, Appended, config.MaxErrors)
        ELSE ~HasSentinel(allResults) /\ SameResults(allResults, Appended)

\* C16's case: the first error reaches the limit of 1, and the file that produced
\* it has a later diagnostic, which Run does not return.
C16_Witness ==
    /\ Returned
    /\ config.MaxErrors = 1
    /\ Len(files) = 1
    /\ HasSentinel(allResults)
    /\ Len(allResults) >= 2
    /\ allResults[Len(allResults) - 1].Severity = SeverityError
    /\ Len(CheckFile(enabled, rulesConfig, MaxLength, files[1])) > Len(allResults) - 1

====
